---- MODULE Spec2Model ----
(***************************************************************************)
(* The agent-pod reconciler of the workflow controller                     *)
(* (workflow/controller/agent.go): reconcileAgentPod, createAgentPod,      *)
(* getAgentPlugins, assessAgentPodStatus and updateAgentPodStatus, run by  *)
(* controller workers against a cluster pod API, an eventually consistent  *)
(* pod informer store and a plugin ConfigMap store.                        *)
(***************************************************************************)
EXTENDS Naturals, Sequences, FiniteSets, TLC

(* ------------------------------------------------------------------ *)
(* Bounds of the model                                                 *)
(* ------------------------------------------------------------------ *)

\* Reconcile passes started in one behaviour, over all workers.
MaxPasses == 2

\* Changes of the pod phases, the task sets and the plugin configuration in one
\* behaviour.
MaxEnvSteps == 1

\* Controller workers, each running one reconcile pass at a time.
Procs == {"p1", "p2"}

LaterProcs(p) == IF p = "p1" THEN {"p2"} ELSE {}

\* The workflows: wf-a lives in the controller's namespace, wf-b in another.
Workflows == {"wf-a", "wf-b"}

(* ------------------------------------------------------------------ *)
(* State                                                               *)
(* ------------------------------------------------------------------ *)

VARIABLES
  cluster,     \* the pods the cluster's API server holds
  cache,       \* the pods in the controller's informer store
  taskSet,     \* taskSet[w]: woc.taskSet of workflow w
  plugins,     \* woc.controller.plugins, the plugin feature flag
  configMaps,  \* configMaps[ns]: the plugin descriptors of namespace ns
  wfStatus,    \* wfStatus[w]: the phase and message markWorkflowError set
  pc,          \* pc[p]: where worker p is in its reconcile pass
  pass,        \* pass[p]: the locals of worker p's pass and what it has done
  lastRet,     \* lastRet[w]: what the last createAgentPod for w returned
  passes,      \* reconcile passes started so far
  envSteps,    \* pod-phase, task-set and configuration changes so far
  aPod,        \* the pod handed to assessAgentPodStatus on its own
  aOut         \* what assessAgentPodStatus returned for aPod

vars == <<cluster, cache, taskSet, plugins, configMaps, wfStatus, pc, pass,
          lastRet, passes, envSteps, aPod, aOut>>

(* ------------------------------------------------------------------ *)
(* The workflows and the controller configuration                      *)
(* ------------------------------------------------------------------ *)

\* woc.controller.namespace
ControllerNamespace == "argo"

\* woc.wf.Namespace
WfNamespace(w) == IF w = "wf-a" THEN "argo" ELSE "user"

\* woc.wf.Spec.ServiceAccountName ("" when unset)
WfServiceAccountName(w) == IF w = "wf-a" THEN "" ELSE "sa-b"

\* woc.execWf.Spec.ImagePullSecrets
WfImagePullSecrets(w) == IF w = "wf-a" THEN <<>> ELSE <<"regcred">>

\* woc.controller.Config.InstanceID ("" when the controller has none)
InstanceID == "i1"

\* woc.controller.executorImage()
ExecutorImage == "argoexec:latest"

LabelKeyWorkflow == "workflows.argoproj.io/workflow"
LabelKeyCompleted == "workflows.argoproj.io/completed"
LabelKeyControllerInstanceID == "workflows.argoproj.io/controller-instanceid"
EnvVarWorkflowName == "ARGO_WORKFLOW_NAME"
EnvVarPluginAddresses == "ARGO_PLUGIN_ADDRESSES"

\* The task sets a workflow can have (woc.taskSet).
TaskSets == {{}, {"task-1"}}

(* ------------------------------------------------------------------ *)
(* Pods                                                                *)
(* ------------------------------------------------------------------ *)

\* The zero value of apiv1.Pod: what &apiv1.Pod{} holds.
ZeroPod ==
  [name |-> "", namespace |-> "", labels |-> {}, ownerReferences |-> <<>>,
   restartPolicy |-> "", imagePullSecrets |-> <<>>, serviceAccountName |-> "",
   containers |-> <<>>, phase |-> "", message |-> ""]

\* The key of the informer store: namespace + "/" + name.
PodKey(pod) == pod.namespace \o "/" \o pod.name

\* The parts of a pod that the controller writes (everything but its status).
PodSpecOf(pod) == [pod EXCEPT !.phase = "", !.message = ""]

\* What "equivalent" pods share: name, phase and message.
PodView(pod) == [name |-> pod.name, phase |-> pod.phase, message |-> pod.message]

\* wf.NodeID(nodeName): the workflow's name when nodeName is the workflow's
\* name, else the workflow's name and a hash of nodeName.
NodeID(w, nodeName) ==
  IF nodeName = w THEN w ELSE w \o "-" \o "fnv32a:" \o nodeName

\* A name that is not a function of the workflow alone: it carries the number
\* of the pass that builds it.
getAgentPodNamePerPass(w) ==
  NodeID(w, "agent") \o "-agent-" \o ToString(passes)

\* A name that does not depend on the workflow.
getAgentPodNameShared(w) == NodeID("", "agent") \o "-agent"

\* A name that depends on the plugin configuration.
getAgentPodNameByConfig(w) ==
  NodeID(w, "agent") \o "-agent-" \o ToString(Len(configMaps[ControllerNamespace]))

getAgentPodName(w) == NodeID(w, "agent") \o "-agent"

isAgentPod(w, pod) == pod.name = getAgentPodName(w)

(* ------------------------------------------------------------------ *)
(* assessAgentPodStatus                                                *)
(* ------------------------------------------------------------------ *)

\* An assessor that takes the empty phase for a phase still to come.
assessAgentPodStatusEmptyIgnored(pod) ==
  IF pod.phase \in {"Succeeded", "Running", "Pending", ""}
    THEN [newPhase |-> "", message |-> ""]
  ELSE IF pod.phase = "Failed"
    THEN [newPhase |-> "Failed", message |-> pod.message]
  ELSE [newPhase |-> "Error",
        message |-> "Unexpected pod phase for " \o pod.name \o ": " \o pod.phase]

assessAgentPodStatus(pod) ==
  IF pod.phase \in {"Succeeded", "Running", "Pending"}
    THEN [newPhase |-> "", message |-> ""]
  ELSE IF pod.phase = "Failed"
    THEN [newPhase |-> "Failed", message |-> pod.message]
  ELSE [newPhase |-> "Error",
        message |-> "Unexpected pod phase for " \o pod.name \o ": " \o pod.phase]

(* ------------------------------------------------------------------ *)
(* Plugin descriptors (ConfigMaps) and getAgentPlugins                 *)
(* ------------------------------------------------------------------ *)

\* cm.Data is a map from keys to strings, here a set of <<key, value>> pairs.
HasKey(data, k) == \E kv \in data : kv[1] = k

\* data[k]; the empty string when the key is absent.
DataGet(data, k) ==
  IF HasKey(data, k) THEN (CHOOSE kv \in data : kv[1] = k)[2] ELSE ""

\* yaml.Unmarshal([]byte(v), &out) for out a []string, on the encodings the
\* descriptors of this model carry: a YAML sequence of strings decodes, the
\* empty document leaves the slice nil, a broken document and a scalar fail.
Unmarshal(v) ==
  CASE v = "[sh, -c]" -> [ok |-> TRUE, val |-> <<"sh", "-c">>]
    [] v = "[serve]" -> [ok |-> TRUE, val |-> <<"serve">>]
    [] v = "[]" -> [ok |-> TRUE, val |-> <<>>]
    [] v = "" -> [ok |-> TRUE, val |-> <<>>]
    [] OTHER -> [ok |-> FALSE, val |-> <<>>]

\* The descriptors of the model.
CmPlugin1 ==
  [name |-> "plugin-1",
   data |-> {<<"image", "img1">>, <<"address", "10.0.0.1:50051">>,
             <<"command", "[sh, -c]">>, <<"args", "[serve]">>}]

CmPlugin2 ==
  [name |-> "plugin-2",
   data |-> {<<"image", "img2">>, <<"address", "10.0.0.2:50051">>}]

CmBadCommand ==
  [name |-> "plugin-bad-command",
   data |-> {<<"image", "img3">>, <<"address", "10.0.0.3:50051">>,
             <<"command", "{">>}]

CmBadArgs ==
  [name |-> "plugin-bad-args",
   data |-> {<<"image", "img4">>, <<"address", "10.0.0.4:50051">>,
             <<"command", "[sh, -c]">>, <<"args", "serve --all">>}]

Namespaces == {ControllerNamespace} \cup {WfNamespace(w) : w \in Workflows}

\* One descriptor in the controller's namespace and one in the other.
ScenarioPlugins ==
  [ns \in Namespaces |->
     IF ns = ControllerNamespace THEN <<CmPlugin1>> ELSE <<CmPlugin2>>]

\* The plugin configurations of the model: the descriptors of each namespace,
\* in the order the lister returns them.
PluginConfigs ==
  { [ns \in Namespaces |-> <<>>],
    ScenarioPlugins,
    [ns \in Namespaces |->
       IF ns = ControllerNamespace THEN <<CmPlugin1, CmBadCommand>> ELSE <<>>],
    [ns \in Namespaces |->
       IF ns = ControllerNamespace THEN <<>> ELSE <<CmPlugin2, CmBadArgs>>] }

\* A range that visits every namespace twice.
IterationOrdersTwice(S) ==
  { o \o o : o \in { s \in UNION { [1..n -> S] : n \in 0..Cardinality(S) } :
                       /\ Len(s) = Cardinality(S)
                       /\ \A i, j \in 1..Len(s) : i # j => s[i] # s[j] } }

\* The orders in which a range over the map of namespaces can visit its keys.
IterationOrders(S) ==
  { o \in UNION { [1..n -> S] : n \in 1..Cardinality(S) } :
      /\ Len(o) = Cardinality(S)
      /\ \A i, j \in 1..Len(o) : i # j => o[i] # o[j] }

\* woc.controller.getConfigMaps(namespace, "AgentPlugin"): the plugin
\* descriptors of the namespace, or an error.
getConfigMaps(cfg, namespace, fails) ==
  IF namespace \in fails
    THEN [err |-> "failed to list config maps in " \o namespace, cms |-> <<>>]
    ELSE [err |-> "", cms |-> cfg[namespace]]

NoPlugins == [err |-> "", sidecars |-> <<>>, addresses |-> <<>>]

PluginsError(e) == [err |-> e, sidecars |-> <<>>, addresses |-> <<>>]

\* A loop that skips a descriptor it cannot parse instead of failing.
RECURSIVE scanConfigMapsSkipBad(_, _)
scanConfigMapsSkipBad(cms, acc) ==
  IF cms = <<>> THEN acc
  ELSE
    LET cm == Head(cms)
        command == IF HasKey(cm.data, "command")
                     THEN Unmarshal(DataGet(cm.data, "command"))
                     ELSE [ok |-> TRUE, val |-> <<>>]
        args == IF HasKey(cm.data, "args")
                  THEN Unmarshal(DataGet(cm.data, "args"))
                  ELSE [ok |-> TRUE, val |-> <<>>]
    IN IF ~command.ok \/ ~args.ok THEN scanConfigMapsSkipBad(Tail(cms), acc)
       ELSE scanConfigMapsSkipBad(Tail(cms),
              [err |-> "",
               sidecars |-> Append(acc.sidecars,
                  [name |-> cm.name, image |-> DataGet(cm.data, "image"),
                   command |-> command.val, args |-> args.val, env |-> <<>>]),
               addresses |-> Append(acc.addresses, DataGet(cm.data, "address"))])

\* The loop over the descriptors of one namespace; acc holds the sidecars and
\* addresses appended so far.
RECURSIVE scanConfigMaps(_, _)
scanConfigMaps(cms, acc) ==
  IF cms = <<>> THEN acc
  ELSE
    LET cm == Head(cms)
        vc == DataGet(cm.data, "command")
        va == DataGet(cm.data, "args")
        command == IF HasKey(cm.data, "command")
                     THEN Unmarshal(vc) ELSE [ok |-> TRUE, val |-> <<>>]
        args == IF HasKey(cm.data, "args")
                  THEN Unmarshal(va) ELSE [ok |-> TRUE, val |-> <<>>]
    IN IF ~command.ok THEN PluginsError("failed to parse " \o vc)
       ELSE IF ~args.ok THEN PluginsError("failed to parse " \o va)
       ELSE scanConfigMaps(Tail(cms),
              [err |-> "",
               sidecars |-> Append(acc.sidecars,
                  [name |-> cm.name, image |-> DataGet(cm.data, "image"),
                   command |-> command.val, args |-> args.val, env |-> <<>>]),
               addresses |-> Append(acc.addresses, DataGet(cm.data, "address"))])

\* The loop over the namespaces, visited in the given order.
RECURSIVE scanNamespaces(_, _, _, _)
scanNamespaces(cfg, order, fails, acc) ==
  IF order = <<>> THEN acc
  ELSE
    LET listed == getConfigMaps(cfg, Head(order), fails)
    IN IF listed.err # "" THEN PluginsError(listed.err)
       ELSE LET scanned == scanConfigMaps(listed.cms, acc)
            IN IF scanned.err # "" THEN scanned
               ELSE scanNamespaces(cfg, Tail(order), fails, scanned)

\* The namespaces getAgentPlugins lists for workflow w: a map used as a set.
PluginNamespaces(w) == {ControllerNamespace, WfNamespace(w)}

\* A getAgentPlugins that lists the controller's namespace alone.
getAgentPluginsControllerOnly(flag, cfg, order, fails) ==
  IF flag
    THEN scanNamespaces(cfg, <<ControllerNamespace>>, fails, NoPlugins)
    ELSE NoPlugins

\* A getAgentPlugins that lists the namespaces whatever the feature flag.
getAgentPluginsFlagIgnored(flag, cfg, order, fails) ==
  scanNamespaces(cfg, order, fails, NoPlugins)

\* getAgentPlugins: flag is woc.controller.plugins, cfg the ConfigMap store,
\* order the iteration order of the namespaces and fails the namespaces whose
\* listing fails.
getAgentPlugins(flag, cfg, order, fails) ==
  IF flag THEN scanNamespaces(cfg, order, fails, NoPlugins) ELSE NoPlugins

(* ------------------------------------------------------------------ *)
(* The pod createAgentPod builds                                       *)
(* ------------------------------------------------------------------ *)

\* wfv1.MustMarshallJSON of a []string: a nil slice marshals to null.
RECURSIVE JoinQuoted(_)
JoinQuoted(s) ==
  IF Len(s) = 1 THEN "\"" \o s[1] \o "\""
  ELSE "\"" \o s[1] \o "\"," \o JoinQuoted(Tail(s))

MustMarshallJSON(s) == IF s = <<>> THEN "null" ELSE "[" \o JoinQuoted(s) \o "]"

MainContainer(w, pluginAddresses) ==
  [name |-> "main", image |-> ExecutorImage,
   command |-> <<"argoexec">>, args |-> <<"agent">>,
   env |-> << [name |-> EnvVarWorkflowName, value |-> w],
              [name |-> EnvVarPluginAddresses,
               value |-> MustMarshallJSON(pluginAddresses)] >>]

\* A pod object whose main container comes before the sidecars.
NewAgentPodMainFirst(w, pluginSidecars, pluginAddresses) ==
  [name |-> getAgentPodName(w),
   namespace |-> WfNamespace(w),
   labels |-> {<<LabelKeyWorkflow, w>>, <<LabelKeyCompleted, "false">>}
              \cup (IF InstanceID # ""
                      THEN {<<LabelKeyControllerInstanceID, InstanceID>>}
                      ELSE {}),
   ownerReferences |-> << [kind |-> "Workflow", name |-> w, controller |-> TRUE] >>,
   restartPolicy |-> "OnFailure",
   imagePullSecrets |-> WfImagePullSecrets(w),
   serviceAccountName |-> WfServiceAccountName(w),
   containers |-> <<MainContainer(w, pluginAddresses)>> \o pluginSidecars,
   phase |-> "", message |-> ""]

\* The pod object of createAgentPod, lines 89-125.
NewAgentPod(w, pluginSidecars, pluginAddresses) ==
  [name |-> getAgentPodName(w),
   namespace |-> WfNamespace(w),
   labels |-> {<<LabelKeyWorkflow, w>>, <<LabelKeyCompleted, "false">>}
              \cup (IF InstanceID # ""
                      THEN {<<LabelKeyControllerInstanceID, InstanceID>>}
                      ELSE {}),
   ownerReferences |-> << [kind |-> "Workflow", name |-> w, controller |-> TRUE] >>,
   restartPolicy |-> "OnFailure",
   imagePullSecrets |-> WfImagePullSecrets(w),
   serviceAccountName |-> WfServiceAccountName(w),
   containers |-> Append(pluginSidecars, MainContainer(w, pluginAddresses)),
   phase |-> "", message |-> ""]

(* ------------------------------------------------------------------ *)
(* The cluster and the informer store                                  *)
(* ------------------------------------------------------------------ *)

\* The pods of the cluster (or of the store) under a key.
PodsAt(pods, key) == {q \in pods : PodKey(q) = key}

\* The key createAgentPod looks up: woc.wf.Namespace + "/" + podName.
AgentPodKey(w) == WfNamespace(w) \o "/" \o getAgentPodName(w)

\* The agent pods the cluster holds for workflow w: those the workflow owns.
AgentPodsOf(w) ==
  {q \in cluster : \E i \in 1..Len(q.ownerReferences) : q.ownerReferences[i].name = w}

\* The phase the API server stores in a pod it creates.
CreatedPhases == {"", "Pending"}

\* The phases the kubelet moves a pod to.
NextPhases(phase) ==
  CASE phase = "" -> {"Pending"}
    [] phase = "Pending" -> {"Running", "Failed", "Unknown"}
    [] phase = "Running" -> {"Succeeded", "Failed", "Unknown"}
    [] OTHER -> {}

\* The message the kubelet reports with a phase.
PhaseMessage(phase) == IF phase = "Failed" THEN "OOMKilled" ELSE ""

(* ------------------------------------------------------------------ *)
(* A reconcile pass                                                    *)
(* ------------------------------------------------------------------ *)

\* No plugin configuration read yet.
NoConfig == [ns \in Namespaces |-> <<>>]

NoCall == [name |-> "-", phase |-> "-", message |-> "-"]

\* The locals of a pass (wf, sidecars, addresses, pod, err) and the record of
\* what the pass did.
IdlePass ==
  [wf |-> "", taskEmpty |-> FALSE, existed |-> FALSE, hit |-> FALSE,
   seen |-> ZeroPod, existing |-> ZeroPod, prev |-> NoCall,
   sidecars |-> <<>>, addresses |-> <<>>, submitted |-> ZeroPod,
   cfgSeen |-> NoConfig, failsSeen |-> {},
   pod |-> ZeroPod, podNil |-> TRUE, err |-> "", result |-> "",
   storeGets |-> 0, discoveryCalls |-> 0, synthCalls |-> 0, createCalls |-> 0,
   createOutcome |-> "", assessCalls |-> 0, marks |-> <<>>]

\* woc.markWorkflowError(ctx, err): the workflow is put in phase Error with
\* the error's text.
markWorkflowError(status, w, e) ==
  [status EXCEPT ![w] = [phase |-> "Error", message |-> e]]

\* An update that marks the workflow on an Error result alone.
updateAgentPodStatusErrorOnly(pod) ==
  LET a == assessAgentPodStatus(pod)
  IN IF a.newPhase = "Error"
       THEN <<"agent pod failed with reason " \o a.message>>
       ELSE <<>>

\* An update that marks the workflow on a Failed result alone.
updateAgentPodStatusFailedOnly(pod) ==
  LET a == assessAgentPodStatus(pod)
  IN IF a.newPhase = "Failed"
       THEN <<"agent pod failed with reason " \o a.message>>
       ELSE <<>>

\* updateAgentPodStatus: the error handed to markWorkflowError, if any.
updateAgentPodStatus(pod) ==
  LET a == assessAgentPodStatus(pod)
  IN IF a.newPhase = "Failed" \/ a.newPhase = "Error"
       THEN <<"agent pod failed with reason " \o a.message>>
       ELSE <<>>

\* Marks taken from the assessor whatever the pod's phase.
statusMarksUnguarded(pod) == updateAgentPodStatus(pod)

\* Lines 38-41 of reconcileAgentPod: the marks of a pass whose createAgentPod
\* returned pod.
statusMarks(pod) == IF pod.phase # "" THEN updateAgentPodStatus(pod) ELSE <<>>

\* A pass record that keeps no mark once the workflow is in error.
ReturnedPodLatched(ps, pod) ==
  [ps EXCEPT !.pod = pod, !.podNil = FALSE, !.err = "", !.result = "",
             !.assessCalls = IF pod.phase # "" THEN 1 ELSE 0,
             !.marks = IF wfStatus[ps.wf].phase = "Error"
                         THEN <<>> ELSE statusMarks(pod)]

\* The pass record once createAgentPod has returned (pod, nil): lines 37-41,
\* reconcileAgentPod returns nil.
ReturnedPod(ps, pod) ==
  [ps EXCEPT !.pod = pod, !.podNil = FALSE, !.err = "", !.result = "",
             !.assessCalls = IF pod.phase # "" THEN 1 ELSE 0,
             !.marks = statusMarks(pod)]

\* The workflow status once createAgentPod has returned (pod, nil).
StatusAfter(w, pod) ==
  IF statusMarks(pod) # <<>>
    THEN markWorkflowError(wfStatus, w, statusMarks(pod)[1])
    ELSE wfStatus

\* The pass record once createAgentPod has returned (nil, err): lines 34-36,
\* reconcileAgentPod returns err.
ReturnedError(ps, e) ==
  [ps EXCEPT !.pod = ZeroPod, !.podNil = TRUE, !.err = e, !.result = e]

\* The passes of the other workers on workflow w lose their reference call when
\* the cluster changes under them.
Mutated(ps, w) ==
  [q \in Procs |-> IF ps[q].wf = w THEN [ps[q] EXCEPT !.prev = NoCall] ELSE ps[q]]

\* A pass that has made its last call returns at once: the return touches only
\* the worker's own locals, so no other step is taken between the two.
NoReturnPending == \A q \in Procs : pc[q] # "done"

\* The work queue hands a pass to a free worker; the workers are alike, so the
\* model takes the first of them that is free.
Free(p) ==
  /\ NoReturnPending
  /\ pc[p] = "idle"
  /\ \A q \in Procs : pc[q] = "idle" => q \in {p} \cup LaterProcs(p)

\* An empty task set that tears the agent pod down.
ReconcileEmptyDeletes(p, w) ==
  /\ Free(p)
  /\ passes < MaxPasses
  /\ Cardinality(taskSet[w]) = 0
  /\ pc' = [pc EXCEPT ![p] = "done"]
  /\ pass' = [pass EXCEPT ![p] =
       [IdlePass EXCEPT !.wf = w, !.taskEmpty = TRUE,
                        !.existed = (PodsAt(cluster, AgentPodKey(w)) # {})]]
  /\ cluster' = cluster \ PodsAt(cluster, AgentPodKey(w))
  /\ passes' = passes + 1
  /\ UNCHANGED <<cache, taskSet, plugins, configMaps, wfStatus,
                 lastRet, envSteps, aPod, aOut>>

\* reconcileAgentPod with an empty task set: line 30.
ReconcileEmpty(p, w) ==
  /\ Free(p)
  /\ passes < MaxPasses
  /\ Cardinality(taskSet[w]) = 0
  /\ pc' = [pc EXCEPT ![p] = "done"]
  /\ pass' = [pass EXCEPT ![p] =
       [IdlePass EXCEPT !.wf = w, !.taskEmpty = TRUE,
                        !.existed = (PodsAt(cluster, AgentPodKey(w)) # {})]]
  /\ passes' = passes + 1
  /\ UNCHANGED <<cluster, cache, taskSet, plugins, configMaps, wfStatus,
                 lastRet, envSteps, aPod, aOut>>

\* The pass record at the store lookup of createAgentPod, line 72.
StartedPass(w) ==
  [IdlePass EXCEPT !.wf = w, !.storeGets = 1, !.prev = lastRet[w],
                   !.existed = (PodsAt(cluster, AgentPodKey(w)) # {})]

\* The store lookup fails: lines 73-75.
ReconcileStoreError(p, w) ==
  /\ Free(p)
  /\ passes < MaxPasses
  /\ Cardinality(taskSet[w]) # 0
  /\ pc' = [pc EXCEPT ![p] = "done"]
  /\ pass' = [pass EXCEPT ![p] =
       ReturnedError(StartedPass(w), "failed to get pod from informer store")]
  /\ lastRet' = [lastRet EXCEPT ![w] = NoCall]
  /\ passes' = passes + 1
  /\ UNCHANGED <<cluster, cache, taskSet, plugins, configMaps, wfStatus,
                 envSteps, aPod, aOut>>

\* A cache hit that is not taken: the pass goes on to getAgentPlugins and to
\* the create call although the store holds the pod.
ReconcileCacheHitIgnored(p, w) ==
  /\ Free(p)
  /\ passes < MaxPasses
  /\ Cardinality(taskSet[w]) # 0
  /\ \E existing \in PodsAt(cache, AgentPodKey(w)) :
       LET r == getAgentPlugins(plugins, configMaps,
                  CHOOSE o \in IterationOrders(PluginNamespaces(w)) : TRUE, {})
       IN pass' = [pass EXCEPT ![p] =
            [StartedPass(w) EXCEPT !.hit = TRUE, !.seen = existing,
                                   !.discoveryCalls = @ + 1, !.synthCalls = @ + 1,
                                   !.submitted = NewAgentPod(w, r.sidecars, r.addresses)]]
  /\ pc' = [pc EXCEPT ![p] = "create"]
  /\ passes' = passes + 1
  /\ UNCHANGED <<cluster, cache, taskSet, plugins, configMaps, wfStatus,
                 lastRet, envSteps, aPod, aOut>>

\* The store holds the pod: lines 76-82, then lines 38-41. The pod informer
\* stores *apiv1.Pod objects only, so the type assertion of line 77 holds.
ReconcileCacheHit(p, w) ==
  /\ Free(p)
  /\ passes < MaxPasses
  /\ Cardinality(taskSet[w]) # 0
  /\ \E existing \in PodsAt(cache, AgentPodKey(w)) :
       /\ pass' = [pass EXCEPT ![p] =
            ReturnedPod([StartedPass(w) EXCEPT !.hit = TRUE, !.seen = existing],
                        existing)]
       /\ wfStatus' = StatusAfter(w, existing)
       /\ lastRet' = [lastRet EXCEPT ![w] = PodView(existing)]
  /\ pc' = [pc EXCEPT ![p] = "done"]
  /\ passes' = passes + 1
  /\ UNCHANGED <<cluster, cache, taskSet, plugins, configMaps, envSteps, aPod, aOut>>

\* The store does not hold the pod: lines 84-87, getAgentPlugins, whose error
\* ends the pass, and lines 89-125, the pod to submit.
ReconcileCacheMiss(p, w) ==
  /\ Free(p)
  /\ passes < MaxPasses
  /\ Cardinality(taskSet[w]) # 0
  /\ PodsAt(cache, AgentPodKey(w)) = {}
  /\ \E order \in IterationOrders(PluginNamespaces(w)),
        fails \in SUBSET PluginNamespaces(w) :
       LET r == getAgentPlugins(plugins, configMaps, order, fails)
           ps == [StartedPass(w) EXCEPT !.discoveryCalls = @ + 1,
                                        !.cfgSeen = configMaps,
                                        !.failsSeen = IF plugins THEN fails ELSE {}]
       IN IF r.err # ""
            THEN /\ pc' = [pc EXCEPT ![p] = "done"]
                 /\ pass' = [pass EXCEPT ![p] = ReturnedError(ps, r.err)]
                 /\ lastRet' = [lastRet EXCEPT ![w] = NoCall]
            ELSE /\ pc' = [pc EXCEPT ![p] = "create"]
                 /\ pass' = [pass EXCEPT ![p] =
                      [ps EXCEPT !.sidecars = r.sidecars, !.addresses = r.addresses,
                                 !.synthCalls = @ + 1,
                                 !.submitted = NewAgentPod(w, r.sidecars, r.addresses)]]
                 /\ lastRet' = lastRet
  /\ passes' = passes + 1
  /\ UNCHANGED <<cluster, cache, taskSet, plugins, configMaps, wfStatus,
                 envSteps, aPod, aOut>>

\* Line 129, the API server stores the pod and answers with it; lines 138-139.
CreateOK(p) ==
  /\ NoReturnPending
  /\ pc[p] = "create"
  /\ PodsAt(cluster, PodKey(pass[p].submitted)) = {}
  /\ \E phase \in CreatedPhases :
       LET created == [pass[p].submitted EXCEPT !.phase = phase]
           ps == [pass[p] EXCEPT !.createCalls = @ + 1, !.createOutcome = "created"]
           w == pass[p].wf
       IN /\ cluster' = cluster \cup {created}
          /\ pass' = [Mutated(pass, w) EXCEPT ![p] = ReturnedPod(ps, created)]
          /\ wfStatus' = StatusAfter(w, created)
          /\ lastRet' = [lastRet EXCEPT ![w] = PodView(created)]
  /\ pc' = [pc EXCEPT ![p] = "done"]
  /\ UNCHANGED <<cache, taskSet, plugins, configMaps, passes, envSteps, aPod, aOut>>

\* The object Create returns beside an error: the client decodes no body into
\* the result it allocated.
CreateErrorResult == ZeroPod

\* An "already exists" answered by writing the new pod over the existing one.
CreateAlreadyExistsReplaces(p) ==
  /\ NoReturnPending
  /\ pc[p] = "create"
  /\ \E existing \in PodsAt(cluster, PodKey(pass[p].submitted)) :
       LET ps == [pass[p] EXCEPT !.createCalls = @ + 1, !.createOutcome = "exists",
                                 !.existing = existing]
           w == pass[p].wf
       IN /\ cluster' = (cluster \ {existing}) \cup {pass[p].submitted}
          /\ pass' = [pass EXCEPT ![p] = ReturnedPod(ps, pass[p].submitted)]
          /\ wfStatus' = StatusAfter(w, pass[p].submitted)
          /\ lastRet' = [lastRet EXCEPT ![w] = PodView(pass[p].submitted)]
  /\ pc' = [pc EXCEPT ![p] = "done"]
  /\ UNCHANGED <<cache, taskSet, plugins, configMaps, passes, envSteps, aPod, aOut>>

\* Lines 130-134: the name is taken; createAgentPod returns what Create returned.
CreateAlreadyExists(p) ==
  /\ NoReturnPending
  /\ pc[p] = "create"
  /\ \E existing \in PodsAt(cluster, PodKey(pass[p].submitted)) :
       LET created == CreateErrorResult
           ps == [pass[p] EXCEPT !.createCalls = @ + 1, !.createOutcome = "exists",
                                 !.existing = existing]
           w == pass[p].wf
       IN /\ pass' = [pass EXCEPT ![p] = ReturnedPod(ps, created)]
          /\ wfStatus' = StatusAfter(w, created)
          /\ lastRet' = [lastRet EXCEPT ![w] = PodView(created)]
  /\ pc' = [pc EXCEPT ![p] = "done"]
  /\ UNCHANGED <<cluster, cache, taskSet, plugins, configMaps, passes, envSteps,
                 aPod, aOut>>

\* A failed Create taken for an "already exists": the error is dropped and the
\* object Create returned is handed back.
CreateFailsSwallowed(p) ==
  /\ NoReturnPending
  /\ pc[p] = "create"
  /\ pc' = [pc EXCEPT ![p] = "done"]
  /\ pass' = [pass EXCEPT ![p] =
       ReturnedPod([pass[p] EXCEPT !.createCalls = @ + 1, !.createOutcome = "failed"],
                   CreateErrorResult)]
  /\ lastRet' = [lastRet EXCEPT ![pass[p].wf] = NoCall]
  /\ UNCHANGED <<cluster, cache, taskSet, plugins, configMaps, wfStatus,
                 passes, envSteps, aPod, aOut>>

\* Lines 135-136: Create fails with another error and nothing is stored.
CreateFails(p) ==
  /\ NoReturnPending
  /\ pc[p] = "create"
  /\ pc' = [pc EXCEPT ![p] = "done"]
  /\ pass' = [pass EXCEPT ![p] =
       ReturnedError([pass[p] EXCEPT !.createCalls = @ + 1, !.createOutcome = "failed"],
                     "failed to create Agent pod. Reason: server unavailable")]
  /\ lastRet' = [lastRet EXCEPT ![pass[p].wf] = NoCall]
  /\ UNCHANGED <<cluster, cache, taskSet, plugins, configMaps, wfStatus,
                 passes, envSteps, aPod, aOut>>

\* Lines 135-136: the API server stores the pod and its answer is lost.
CreateLost(p) ==
  /\ NoReturnPending
  /\ pc[p] = "create"
  /\ PodsAt(cluster, PodKey(pass[p].submitted)) = {}
  /\ \E phase \in CreatedPhases :
       cluster' = cluster \cup {[pass[p].submitted EXCEPT !.phase = phase]}
  /\ pc' = [pc EXCEPT ![p] = "done"]
  /\ pass' = [Mutated(pass, pass[p].wf) EXCEPT ![p] =
       ReturnedError([pass[p] EXCEPT !.createCalls = @ + 1, !.createOutcome = "lost"],
                     "failed to create Agent pod. Reason: request timed out")]
  /\ lastRet' = [lastRet EXCEPT ![pass[p].wf] = NoCall]
  /\ UNCHANGED <<cache, taskSet, plugins, configMaps, wfStatus,
                 passes, envSteps, aPod, aOut>>

\* reconcileAgentPod has returned; the worker is free for another pass.
PassEnd(p) ==
  /\ pc[p] = "done"
  /\ pc' = [pc EXCEPT ![p] = "idle"]
  /\ pass' = [pass EXCEPT ![p] = IdlePass]
  /\ UNCHANGED <<cluster, cache, taskSet, plugins, configMaps, wfStatus,
                 lastRet, passes, envSteps, aPod, aOut>>

(* ------------------------------------------------------------------ *)
(* The environment                                                     *)
(* ------------------------------------------------------------------ *)

\* The kubelet reports a new phase of a pod.
KubeletPhase(pod, phase) ==
  /\ NoReturnPending
  /\ envSteps < MaxEnvSteps
  /\ pod \in cluster
  /\ phase \in NextPhases(pod.phase)
  /\ envSteps' = envSteps + 1
  /\ cluster' = (cluster \ {pod})
       \cup {[pod EXCEPT !.phase = phase, !.message = PhaseMessage(phase)]}
  /\ \E w \in Workflows :
       /\ PodKey(pod) = AgentPodKey(w)
       /\ pass' = Mutated(pass, w)
       /\ lastRet' = [lastRet EXCEPT ![w] = NoCall]
  /\ UNCHANGED <<cache, taskSet, plugins, configMaps, wfStatus, pc,
                 passes, aPod, aOut>>

\* The informer brings the store's entry of a key up to date.
InformerSync(key) ==
  /\ NoReturnPending
  /\ PodsAt(cache, key) # PodsAt(cluster, key)
  /\ cache' = (cache \ PodsAt(cache, key)) \cup PodsAt(cluster, key)
  /\ UNCHANGED <<cluster, taskSet, plugins, configMaps, wfStatus, pc, pass,
                 lastRet, passes, envSteps, aPod, aOut>>

\* The workflow engine computes another task set for a workflow.
TaskSetChange(w, ts) ==
  /\ NoReturnPending
  /\ envSteps < MaxEnvSteps
  /\ ts # taskSet[w]
  /\ taskSet' = [taskSet EXCEPT ![w] = ts]
  /\ envSteps' = envSteps + 1
  /\ UNCHANGED <<cluster, cache, plugins, configMaps, wfStatus, pc, pass,
                 lastRet, passes, aPod, aOut>>

\* The plugin descriptors change.
ConfigChange(cfg) ==
  /\ NoReturnPending
  /\ envSteps < MaxEnvSteps
  /\ cfg # configMaps
  /\ configMaps' = cfg
  /\ envSteps' = envSteps + 1
  /\ UNCHANGED <<cluster, cache, taskSet, plugins, wfStatus, pc, pass,
                 lastRet, passes, aPod, aOut>>

(* ------------------------------------------------------------------ *)
(* The specification                                                   *)
(* ------------------------------------------------------------------ *)

NotAssessed == [newPhase |-> "-", message |-> "-"]

Init ==
  /\ cluster = {}
  /\ cache = {}
  /\ taskSet = [w \in Workflows |-> {"task-1"}]
  /\ plugins \in BOOLEAN
  /\ configMaps = ScenarioPlugins
  /\ wfStatus = [w \in Workflows |-> [phase |-> "", message |-> ""]]
  /\ pc = [p \in Procs |-> "idle"]
  /\ pass = [p \in Procs |-> IdlePass]
  /\ lastRet = [w \in Workflows |-> NoCall]
  /\ passes = 0
  /\ envSteps = 0
  /\ aPod = ZeroPod
  /\ aOut = NotAssessed

Next ==
  \/ \E p \in Procs, w \in Workflows : ReconcileEmpty(p, w)
  \/ \E p \in Procs, w \in Workflows : ReconcileStoreError(p, w)
  \/ \E p \in Procs, w \in Workflows : ReconcileCacheHit(p, w)
  \/ \E p \in Procs, w \in Workflows : ReconcileCacheMiss(p, w)
  \/ \E p \in Procs : CreateOK(p)
  \/ \E p \in Procs : CreateAlreadyExists(p)
  \/ \E p \in Procs : CreateFails(p)
  \/ \E p \in Procs : CreateLost(p)
  \/ \E p \in Procs : PassEnd(p)
  \/ \E pod \in cluster, phase \in {"Pending", "Running", "Succeeded", "Failed", "Unknown"} :
       KubeletPhase(pod, phase)
  \/ \E w \in Workflows : InformerSync(AgentPodKey(w))
  \/ \E w \in Workflows, ts \in TaskSets : TaskSetChange(w, ts)
  \/ \E cfg \in PluginConfigs : ConfigChange(cfg)

Spec == Init /\ [][Next]_vars

\* assessAgentPodStatus on its own, over the pods of AssessPods.
AssessNames == {"", getAgentPodName("wf-a"), "some-other-pod"}

AssessPhases ==
  {"", "Pending", "Running", "Succeeded", "Failed", "Unknown", "Evicted"}

AssessMessages == {"", "OOMKilled", "node lost"}

AssessPods ==
  { [ZeroPod EXCEPT !.name = n, !.phase = ph, !.message = m] :
      n \in AssessNames, ph \in AssessPhases, m \in AssessMessages }

InitAssess ==
  /\ cluster = {}
  /\ cache = {}
  /\ taskSet = [w \in Workflows |-> {"task-1"}]
  /\ plugins = TRUE
  /\ configMaps = ScenarioPlugins
  /\ wfStatus = [w \in Workflows |-> [phase |-> "", message |-> ""]]
  /\ pc = [p \in Procs |-> "idle"]
  /\ pass = [p \in Procs |-> IdlePass]
  /\ lastRet = [w \in Workflows |-> NoCall]
  /\ passes = 0
  /\ envSteps = 0
  /\ aPod \in AssessPods
  /\ aOut = NotAssessed

Assess ==
  /\ aOut = NotAssessed
  /\ aOut' = assessAgentPodStatus(aPod)
  /\ UNCHANGED <<cluster, cache, taskSet, plugins, configMaps, wfStatus, pc,
                 pass, lastRet, passes, envSteps, aPod>>

NextAssess == Assess

SpecAssess == InitAssess /\ [][NextAssess]_vars

(* ------------------------------------------------------------------ *)
(* Passes without end                                                  *)
(* ------------------------------------------------------------------ *)

\* The work queue keeps handing out passes: once the workers are free the
\* count of passes starts over.
Requeue ==
  /\ passes = MaxPasses
  /\ \A p \in Procs : pc[p] = "idle"
  /\ passes' = 0
  /\ UNCHANGED <<cluster, cache, taskSet, plugins, configMaps, wfStatus, pc,
                 pass, lastRet, envSteps, aPod, aOut>>

\* Create returns, with one of its outcomes.
CreateReturns(p) ==
  CreateOK(p) \/ CreateAlreadyExists(p) \/ CreateFails(p) \/ CreateLost(p)

\* The workflows whose passes go on without end, their task sets non-empty.
LiveWorkflows == {"wf-b"}

\* The passes of those workflows.
NextLive ==
  \/ \E p \in Procs, w \in LiveWorkflows : ReconcileStoreError(p, w)
  \/ \E p \in Procs, w \in LiveWorkflows : ReconcileCacheHit(p, w)
  \/ \E p \in Procs, w \in LiveWorkflows : ReconcileCacheMiss(p, w)
  \/ \E p \in Procs : CreateReturns(p)
  \/ \E p \in Procs : PassEnd(p)
  \/ \E pod \in cluster, phase \in {"Pending", "Running", "Succeeded", "Failed", "Unknown"} :
       KubeletPhase(pod, phase)
  \/ \E w \in LiveWorkflows : InformerSync(AgentPodKey(w))
  \/ Requeue

\* Every call returns, the informer brings the store up to date however the
\* passes fall, and the queue keeps scheduling passes whose store lookup
\* succeeds.
FairLive ==
  /\ WF_vars(\E p \in Procs : PassEnd(p))
  /\ WF_vars(Requeue)
  /\ SF_vars(\E p \in Procs : CreateReturns(p))
  /\ \A w \in LiveWorkflows : SF_vars(InformerSync(AgentPodKey(w)))
  /\ \A w \in LiveWorkflows : SF_vars(\E p \in Procs : ReconcileCacheHit(p, w))

SpecLive == Init /\ [][NextLive]_vars /\ FairLive

(* ------------------------------------------------------------------ *)
(* Properties                                                          *)
(* ------------------------------------------------------------------ *)

\* The passes that have made their last call and are about to return.
Done(p) == pc[p] = "done"

\* C1: in every reachable state the cluster holds at most one agent pod for
\* each workflow, whatever passes ran and however they interleaved.
C1_AtMostOneAgentPod ==
  \A w \in Workflows : Cardinality(AgentPodsOf(w)) <= 1

\* A pass that found no pod in the cluster when it started, and whose create
\* call was answered "already exists": another pass created the pod meanwhile.
C1_Witness ==
  \E p \in Procs :
    /\ Done(p)
    /\ ~pass[p].existed
    /\ pass[p].createOutcome = "exists"
    /\ Cardinality(AgentPodsOf(pass[p].wf)) = 1

\* C2: when the create call reports "already exists", createAgentPod returns
\* no error and a pod with the name, phase and message of the pod the cluster
\* holds under that name.
C2_AlreadyExistsReturnsExisting ==
  \A p \in Procs :
    (Done(p) /\ pass[p].createOutcome = "exists") =>
      /\ pass[p].err = ""
      /\ ~pass[p].podNil
      /\ PodView(pass[p].pod) = PodView(pass[p].existing)

\* C3: of two consecutive createAgentPod calls for a workflow with no cluster
\* mutation between them, the second creates no pod and returns a pod
\* equivalent to the one the first returned.
C3_SecondCallEquivalent ==
  \A p \in Procs :
    (Done(p) /\ pass[p].prev # NoCall /\ pass[p].err = "") =>
      /\ pass[p].createOutcome # "created"
      /\ PodView(pass[p].pod) = pass[p].prev

C5_EmptyTaskSetNoCalls ==
  [][\A p \in Procs :
       (pc[p] = "idle" /\ pc'[p] # "idle"
          /\ Cardinality(taskSet[pass'[p].wf]) = 0) =>
         /\ pc'[p] = "done"
         /\ pass'[p].result = ""
         /\ pass'[p].storeGets = 0
         /\ pass'[p].discoveryCalls = 0
         /\ pass'[p].synthCalls = 0
         /\ pass'[p].createCalls = 0
         /\ pass'[p].assessCalls = 0
         /\ pass'[p].marks = <<>>
         /\ wfStatus' = wfStatus
         /\ cluster' = cluster]_vars

\* A pass with an empty task set for a workflow whose agent pod exists.
C5_Witness ==
  \E p \in Procs : Done(p) /\ pass[p].taskEmpty /\ pass[p].existed

\* C6: assessAgentPodStatus maps Succeeded, Running and Pending to the empty
\* result, Failed to (Failed, the pod's message), and every other phase, the
\* empty string and unrecognized strings included, to (Error, a message that
\* carries the pod's name and the phase as it is).
C6_PhaseTable ==
  aOut # NotAssessed =>
    IF aPod.phase \in {"Succeeded", "Running", "Pending"}
      THEN aOut.newPhase = "" /\ aOut.message = ""
    ELSE IF aPod.phase = "Failed"
      THEN aOut.newPhase = "Failed" /\ aOut.message = aPod.message
    ELSE /\ aOut.newPhase = "Error"
         /\ aOut.message =
              "Unexpected pod phase for " \o aPod.name \o ": " \o aPod.phase

\* The assessor has been given a named pod with the empty phase.
C6_Witness ==
  aOut # NotAssessed /\ aPod.phase = "" /\ aPod.name # "" /\ aOut.newPhase = "Error"

\* C7: a pass with a non-empty task set whose createAgentPod yields a pod in
\* phase Failed calls markWorkflowError exactly once, with the pod's message,
\* and reconcileAgentPod returns no error.
C7_FailedPodMarkedOnce ==
  \A p \in Procs :
    (Done(p) /\ ~pass[p].taskEmpty /\ ~pass[p].podNil /\ pass[p].err = ""
       /\ pass[p].pod.phase = "Failed") =>
      /\ pass[p].marks = <<"agent pod failed with reason " \o pass[p].pod.message>>
      /\ pass[p].assessCalls = 1
      /\ pass[p].result = ""

\* A pass that found a Failed pod with a message in the informer store.
C7_Witness ==
  \E p \in Procs :
    Done(p) /\ pass[p].hit /\ pass[p].pod.phase = "Failed"
      /\ pass[p].pod.message = "OOMKilled"

\* C8: no step removes a pod of the cluster or changes its name, namespace,
\* owner reference, labels or containers: only its phase and message change.
C8_PodNeverChanged ==
  [][\A q \in cluster : \E r \in cluster' : PodSpecOf(r) = PodSpecOf(q)]_vars

\* A pass that built a pod other than the one the cluster holds (the plugin
\* configuration or the order of its namespaces differs) and was answered
\* "already exists"; or a pass with an empty task set after the pod was made.
C8_Witness ==
  /\ \E p \in Procs :
       /\ Done(p)
       /\ pass[p].createOutcome = "exists"
       /\ PodSpecOf(pass[p].submitted) # PodSpecOf(pass[p].existing)
       /\ pass[p].cfgSeen # ScenarioPlugins
       /\ \E r \in cluster : PodSpecOf(r) = PodSpecOf(pass[p].existing)

\* A descriptor of the namespaces getAgentPlugins lists for w whose "command"
\* or "args" does not decode.
Malformed(cfg, w) ==
  \E ns \in PluginNamespaces(w) : \E i \in 1..Len(cfg[ns]) :
    \/ HasKey(cfg[ns][i].data, "command")
         /\ ~Unmarshal(DataGet(cfg[ns][i].data, "command")).ok
    \/ HasKey(cfg[ns][i].data, "args")
         /\ ~Unmarshal(DataGet(cfg[ns][i].data, "args")).ok

\* What C9 asks of a pass whose getAgentPlugins call failed: the error is the
\* pass's result, no list is kept, no create call is made, no pod is created.
DiscoveryFailed(p) ==
  /\ Done(p)
  /\ pass[p].err # ""
  /\ pass[p].result = pass[p].err
  /\ pass[p].podNil
  /\ pass[p].sidecars = <<>>
  /\ pass[p].addresses = <<>>
  /\ pass[p].synthCalls = 0
  /\ pass[p].createCalls = 0
  /\ pass[p].createOutcome = ""

\* C9 as stated: a malformed "command" or "args" in any descriptor, or a
\* failed listing, fails getAgentPlugins and the pass, which creates nothing.
C9_MalformedAlwaysFails ==
  \A p \in Procs :
    (pass[p].discoveryCalls = 1
       /\ (Malformed(pass[p].cfgSeen, pass[p].wf) \/ pass[p].failsSeen # {})) =>
      DiscoveryFailed(p)

\* C9, amended: with the plugin feature flag on, a malformed "command" or
\* "args" in any descriptor of the listed namespaces, or a failed listing,
\* fails getAgentPlugins and the pass, which creates nothing.
C9_MalformedFailsWhenPluginsOn ==
  \A p \in Procs :
    (pass[p].discoveryCalls = 1 /\ plugins
       /\ (Malformed(pass[p].cfgSeen, pass[p].wf) \/ pass[p].failsSeen # {})) =>
      DiscoveryFailed(p)

\* A pass that met a malformed descriptor after a well-formed one, with every
\* listing succeeding.
C9_Witness ==
  \E p \in Procs :
    /\ Done(p)
    /\ plugins
    /\ pass[p].discoveryCalls = 1
    /\ Malformed(pass[p].cfgSeen, pass[p].wf)
    /\ pass[p].failsSeen = {}
    /\ pass[p].err # ""

\* C10: when Create fails with an error other than "already exists",
\* createAgentPod returns the error and no pod, reconcileAgentPod returns the
\* error without assessing the pod or marking the workflow, and the pass has
\* made exactly one create call.
C10_CreateErrorReturned ==
  \A p \in Procs :
    (Done(p) /\ pass[p].createOutcome \in {"failed", "lost"}) =>
      /\ pass[p].err # ""
      /\ pass[p].podNil
      /\ pass[p].result = pass[p].err
      /\ pass[p].assessCalls = 0
      /\ pass[p].marks = <<>>
      /\ pass[p].createCalls = 1

\* A pass whose create call failed with nothing stored.
C10_Witness ==
  \E p \in Procs :
    /\ Done(p)
    /\ pass[p].createOutcome = "failed"
    /\ PodsAt(cluster, AgentPodKey(pass[p].wf)) = {}

\* The value of the environment variable of that name.
EnvGet(env, name) ==
  LET i == CHOOSE i \in 1..Len(env) : env[i].name = name IN env[i].value

\* A pass whose getAgentPlugins call succeeded and which built its pod.
Synthesized(p) == pc[p] \in {"create", "done"} /\ pass[p].synthCalls = 1

\* The descriptors the getAgentPlugins call of the pass could list.
DescriptorsSeen(p) ==
  { pass[p].cfgSeen[ns][i] :
      <<ns, i>> \in { x \in PluginNamespaces(pass[p].wf) \X (1..4) :
                        x[2] <= Len(pass[p].cfgSeen[x[1]]) } }

\* The address of the descriptor a sidecar container was made from.
AddressOf(p, c) ==
  DataGet((CHOOSE cm \in DescriptorsSeen(p) : cm.name = c.name).data, "address")

\* C11: every successful getAgentPlugins result has as many addresses as
\* sidecars, addresses[i] being the address of the descriptor sidecars[i] was
\* made from; the pod built from it has those sidecars in that order, then one
\* container named "main" in last position, whose address-list variable
\* carries the addresses in the order of the sidecar containers.
C11_AddressesFollowSidecars ==
  \A p \in Procs :
    Synthesized(p) =>
      LET ps == pass[p]
          cs == ps.submitted.containers
          n == Len(ps.sidecars)
      IN /\ Len(ps.addresses) = n
         /\ \A i \in 1..n :
              \E cm \in DescriptorsSeen(p) :
                /\ ps.sidecars[i].name = cm.name
                /\ ps.sidecars[i].image = DataGet(cm.data, "image")
                /\ ps.addresses[i] = DataGet(cm.data, "address")
         /\ Len(cs) = n + 1
         /\ \A i \in 1..n : cs[i] = ps.sidecars[i] /\ cs[i].name # "main"
         /\ cs[n + 1].name = "main"
         /\ EnvGet(cs[n + 1].env, EnvVarPluginAddresses)
              = MustMarshallJSON([i \in 1..n |-> AddressOf(p, cs[i])])

\* A pass that built its pod from two descriptors of two namespaces.
C11_Witness ==
  \E p \in Procs :
    /\ Synthesized(p)
    /\ Len(pass[p].sidecars) = 2
    /\ pass[p].sidecars[1].name # pass[p].sidecars[2].name

\* A pass of a workflow outside the controller's namespace that built its pod
\* with the plugin feature on, one descriptor in the controller's namespace
\* and one in the workflow's.
ScenarioB(p) ==
  /\ Synthesized(p)
  /\ plugins
  /\ WfNamespace(pass[p].wf) # ControllerNamespace
  /\ pass[p].cfgSeen = ScenarioPlugins

\* The address-list variable of the pod the pass built.
PluginAddressesOf(p) ==
  LET cs == pass[p].submitted.containers
  IN EnvGet(cs[Len(cs)].env, EnvVarPluginAddresses)

\* C12 as stated: in that scenario the pod has exactly 3 containers and its
\* address-list variable is ["10.0.0.1:50051","10.0.0.2:50051"], the address
\* of the controller's namespace first.
C12_ControllerNamespaceFirst ==
  \A p \in Procs :
    ScenarioB(p) =>
      /\ Len(pass[p].submitted.containers) = 3
      /\ PluginAddressesOf(p) = "[\"10.0.0.1:50051\",\"10.0.0.2:50051\"]"

\* C12, amended: in that scenario the pod has exactly 3 containers, two
\* sidecars and the main container last, and its address-list variable holds
\* the two addresses in the order of the sidecar containers, which is either
\* of the two orders: the namespaces are visited in no fixed order.
C12_BothAddressesEitherOrder ==
  \A p \in Procs :
    ScenarioB(p) =>
      LET cs == pass[p].submitted.containers
      IN /\ Len(cs) = 3
         /\ cs[3].name = "main"
         /\ {cs[1].name, cs[2].name} = {CmPlugin1.name, CmPlugin2.name}
         /\ \/ /\ cs[1].name = CmPlugin1.name
               /\ PluginAddressesOf(p) = "[\"10.0.0.1:50051\",\"10.0.0.2:50051\"]"
            \/ /\ cs[1].name = CmPlugin2.name
               /\ PluginAddressesOf(p) = "[\"10.0.0.2:50051\",\"10.0.0.1:50051\"]"

\* A pass of that scenario that visited the workflow's namespace first.
C12_Witness ==
  \E p \in Procs :
    /\ ScenarioB(p)
    /\ PluginAddressesOf(p) = "[\"10.0.0.2:50051\",\"10.0.0.1:50051\"]"

\* The pod is the agent pod of workflow w: named for w, in w's namespace and
\* owned by w.
OwnPod(w, pod) ==
  /\ isAgentPod(w, pod)
  /\ pod.namespace = WfNamespace(w)
  /\ \A i \in 1..Len(pod.ownerReferences) : pod.ownerReferences[i].name = w
  /\ \A v \in Workflows \ {w} : ~isAgentPod(v, pod)

C14_NameOfWorkflowAlone ==
  \A p \in Procs :
    pc[p] # "idle" =>
      LET ps == pass[p] IN
      /\ ps.hit => ps.seen.name = getAgentPodName(ps.wf)
      /\ Synthesized(p) =>
           /\ isAgentPod(ps.wf, ps.submitted)
           /\ \A q \in AgentPodsOf(ps.wf) : q.name = ps.submitted.name
           /\ \A r \in Procs :
                (Synthesized(r) /\ pass[r].wf = ps.wf) =>
                  pass[r].submitted.name = ps.submitted.name

\* A pass that builds the pod of a workflow whose pod an earlier pass created
\* under another plugin configuration.
C14_Witness ==
  \E p \in Procs :
    /\ pc[p] = "create"
    /\ AgentPodsOf(pass[p].wf) # {}
    /\ \E q \in AgentPodsOf(pass[p].wf) :
         q.containers # pass[p].submitted.containers

\* C15: a pass invokes the workflow error setter if and only if the task set
\* is non-empty, createAgentPod returned a pod and no error, and the pod's
\* phase is non-empty and none of Succeeded, Running, Pending. A pod returned
\* with an empty phase is not assessed and marks nothing, although
\* assessAgentPodStatus maps the empty phase to Error.
C15_MarkedIffSettledFailure ==
  \A p \in Procs :
    Done(p) =>
      LET ps == pass[p] IN
      /\ (ps.marks # <<>>) <=>
           /\ ~ps.taskEmpty
           /\ ~ps.podNil /\ ps.err = ""
           /\ ps.pod.phase \notin {"", "Succeeded", "Running", "Pending"}
      /\ Len(ps.marks) <= 1
      /\ (~ps.podNil /\ ps.pod.phase = "") =>
           /\ ps.marks = <<>>
           /\ ps.assessCalls = 0
           /\ assessAgentPodStatus(ps.pod).newPhase = "Error"

\* A pass whose Create answered with the pod it stored, the phase still
\* empty, for a workflow that is not in error.
C15_Witness ==
  \E p \in Procs :
    /\ Done(p)
    /\ pass[p].createOutcome = "created"
    /\ pass[p].pod.phase = ""
    /\ pass[p].pod \in cluster
    /\ wfStatus[pass[p].wf].phase = ""

\* A pass of a workflow of the controller's own namespace that built its pod
\* with the plugin feature on.
SameScope(p) ==
  /\ Synthesized(p)
  /\ plugins
  /\ WfNamespace(pass[p].wf) = ControllerNamespace

\* C16: when the workflow's namespace is the controller's namespace,
\* getAgentPlugins lists that namespace exactly once, so the descriptors of
\* the namespace yield one sidecar and one address each, in the lister's
\* order, and none twice.
C16_SameScopeListedOnce ==
  \A p \in Procs :
    SameScope(p) =>
      LET ps == pass[p]
          cms == ps.cfgSeen[ControllerNamespace]
      IN /\ \A o \in IterationOrders(PluginNamespaces(ps.wf)) :
              o = <<ControllerNamespace>>
         /\ Len(ps.sidecars) = Len(cms)
         /\ Len(ps.addresses) = Len(cms)
         /\ \A i \in 1..Len(cms) :
              /\ ps.sidecars[i].name = cms[i].name
              /\ ps.addresses[i] = DataGet(cms[i].data, "address")
         /\ Len(ps.submitted.containers) = Len(cms) + 1

\* Such a pass with a descriptor in the namespace.
C16_Witness ==
  \E p \in Procs :
    /\ SameScope(p)
    /\ Len(pass[p].cfgSeen[ControllerNamespace]) = 1
    /\ Len(pass[p].sidecars) = 1

\* C19: with the plugin feature flag off getAgentPlugins lists no namespace:
\* whatever the descriptors and whichever listing would fail, it returns no
\* error, no sidecar and no address, so a pass that misses the store builds,
\* and Create stores, a pod with one container, the main container.
C19_FlagOffMainOnly ==
  \A p \in Procs :
    (~plugins /\ pc[p] # "idle" /\ pass[p].discoveryCalls = 1) =>
      LET ps == pass[p] IN
      /\ \A cfg \in PluginConfigs :
           \A order \in IterationOrders(PluginNamespaces(ps.wf)),
              fails \in SUBSET PluginNamespaces(ps.wf) :
             getAgentPlugins(plugins, cfg, order, fails) = NoPlugins
      /\ ps.synthCalls = 1
      /\ ps.sidecars = <<>>
      /\ ps.addresses = <<>>
      /\ Len(ps.submitted.containers) = 1
      /\ ps.submitted.containers[1].name = "main"
      /\ ps.createOutcome = "created" =>
           \A q \in PodsAt(cluster, AgentPodKey(ps.wf)) :
             Len(q.containers) = 1 /\ q.containers[1].name = "main"

\* A pass that created its pod with the flag off while the namespaces held
\* plugin descriptors.
C19_Witness ==
  \E p \in Procs :
    /\ ~plugins
    /\ Done(p)
    /\ pass[p].createOutcome = "created"
    /\ pass[p].cfgSeen[ControllerNamespace] # <<>>
    /\ Len(pass[p].pod.containers) = 1

\* The phases updateAgentPodStatus marks the workflow for.
FailurePhase(phase) == phase \notin {"", "Pending", "Running", "Succeeded"}

\* The cluster holds the agent pod of w in a failure phase.
FailedInCluster(w) ==
  \E q \in PodsAt(cluster, AgentPodKey(w)) : FailurePhase(q.phase)

\* A pass of w has invoked the workflow error setter.
Marked(w) ==
  \E p \in Procs : Done(p) /\ pass[p].wf = w /\ pass[p].marks # <<>>

\* C17: once the agent pod of a workflow is Failed, or in a phase the assessor
\* does not know, in the cluster, then, the task set staying non-empty, the
\* store catching up with the cluster and passes being scheduled without end,
\* a pass eventually invokes the workflow error setter, also when an earlier
\* pass met the pod through the "already exists" answer of Create.
C17_FailedPodEventuallyMarked ==
  \A w \in LiveWorkflows : FailedInCluster(w) ~> Marked(w)

\* A pass that marks the workflow after the createAgentPod call before it, of
\* the same workflow, took the "already exists" path.
C17_Witness ==
  \E p \in Procs :
    /\ Done(p)
    /\ pass[p].hit
    /\ pass[p].marks # <<>>
    /\ pass[p].prev = PodView(CreateErrorResult)
    /\ FailedInCluster(pass[p].wf)

\* C18: no latch. Every pass that finds in the store a pod in a failure phase
\* invokes the workflow error setter exactly once, whether or not the passes
\* before it did so for the same pod: N such passes make N invocations.
C18_EveryObservationMarks ==
  [][\A p \in Procs :
       (pc[p] = "idle" /\ pc'[p] = "done" /\ pass'[p].hit
          /\ FailurePhase(pass'[p].seen.phase)) =>
         /\ Len(pass'[p].marks) = 1
         /\ pass'[p].assessCalls = 1
         /\ pass'[p].marks = updateAgentPodStatus(pass'[p].seen)
         /\ wfStatus'[pass'[p].wf].phase = "Error"]_vars

\* A pass that marks the workflow for a pod the pass before it already marked
\* it for, the workflow being in error since.
C18_Witness ==
  \E p \in Procs :
    /\ Done(p)
    /\ pass[p].hit
    /\ FailurePhase(pass[p].seen.phase)
    /\ pass[p].prev = PodView(pass[p].seen)
    /\ Len(pass[p].marks) = 1

====
